---- MODULE Spec2Model ----
(***************************************************************************)
(* A model of the customer-profile backend: the wishlist stored as JSON    *)
(* text in the customer's custom.wishlist metafield (Get, Add, Remove) and *)
(* the staged image upload pipeline.  Each handler is split at its awaits: *)
(* one action is one upstream call returning and the handler running on to *)
(* its next await or to its response.                                      *)
(***************************************************************************)
EXTENDS Naturals, Sequences, FiniteSets, TLC

VARIABLES
    stored,     \* the text value of the customer's custom.wishlist metafield
    stored0,    \* history: the value the metafield held at the start
    req,        \* per request slot: the handler's locals and its position
    normIn,     \* normalizeWishlistEntries: the list it is applied to
    normOut,    \* normalizeWishlistEntries: the list it returned last
    normCount,  \* normalizeWishlistEntries: how many times it was applied
    up          \* the upload request: position, upstream calls, response

vars == <<stored, stored0, req, normIn, normOut, normCount, up>>

(***************************************************************************)
(* Bounds of the model.                                                    *)
(***************************************************************************)
MaxLen == 2        \* longest stored wishlist array, one request at a time
MaxConcLen == 1    \* longest stored wishlist array, two concurrent requests

(***************************************************************************)
(* JavaScript values.  A property value is a string token: UNDEF for a     *)
(* missing property, NULLV for null, "#2" for the number 2, anything else  *)
(* is that string.  An array element is a record of one shape: its kind,   *)
(* its value when it is a string or a number, its properties when it is an *)
(* object.                                                                 *)
(***************************************************************************)
UNDEF == "undefined"
NULLV == "null"

JsVal(kind, val, id, handle, title, image) ==
    [kind |-> kind, val |-> val, id |-> id, handle |-> handle,
     title |-> title, image |-> image]

Obj(id, handle, title, image) == JsVal("object", UNDEF, id, handle, title, image)
StrEl(s) == JsVal("string", s, UNDEF, UNDEF, UNDEF, UNDEF)
NumEl(n) == JsVal("number", n, UNDEF, UNDEF, UNDEF, UNDEF)
NullEl == JsVal("null", NULLV, UNDEF, UNDEF, UNDEF, UNDEF)
NoVal == JsVal("undefined", UNDEF, UNDEF, UNDEF, UNDEF, UNDEF)

\* JavaScript truthiness of a property value (!v is its negation).
Truthy(v) == v \notin {UNDEF, NULLV, "", "#0"}

\* String(v) of a property value: a number prints its digits.
StringOf(v) ==
    CASE v = "#2" -> "2"
      [] v = "#1" -> "1"
      [] v = "#0" -> "0"
      [] OTHER -> v

\* String(item) of an array element.
StringOfEl(item) ==
    CASE item.kind = "string" -> item.val
      [] item.kind = "number" -> StringOf(item.val)
      [] item.kind = "object" -> "[object Object]"
      [] OTHER -> item.val

\* item.p throws a TypeError exactly when item is null or undefined.
Throws(item) == item.kind \in {"null", "undefined"}

(***************************************************************************)
(* normalizeWishlistEntries: a bare string or number becomes {id: String}, *)
(* an object is returned as it is, and so is anything else.                *)
(***************************************************************************)
\* Without the typeof test: every element is wrapped.
normalizeEntryWrapAll(item) == Obj(StringOfEl(item), UNDEF, UNDEF, UNDEF)

\* Without String(): the bare value is kept as the id.
normalizeEntryNoString(item) ==
    IF item.kind \in {"string", "number"}
    THEN Obj(item.val, UNDEF, UNDEF, UNDEF)
    ELSE item

normalizeEntry(item) ==
    IF item.kind \in {"string", "number"}
    THEN Obj(StringOfEl(item), UNDEF, UNDEF, UNDEF)
    ELSE item

normalizeWishlistEntries(list) ==
    [i \in 1..Len(list) |-> normalizeEntry(list[i])]

(***************************************************************************)
(* The metafield's text.  kind is what JSON.parse makes of it: "absent"    *)
(* (no wishlist node), "empty" (the empty string), "invalid" (no JSON),    *)
(* "nonarray" (JSON, but no array), "array" (a JSON array of elems).       *)
(***************************************************************************)
Doc(kind, elems) == [kind |-> kind, elems |-> elems]

\* JSON.stringify of an in-memory list: the text of a JSON array.
JSONstringify(list) == Doc("array", list)

\* Lines 769-774 (880-885, 977-982): find the node, parse it, fall back to [].
parseWishlist(doc) ==
    IF doc.kind = "array" THEN doc.elems ELSE <<>>

\* The stored array elements the model draws from.
StoredElems ==
    { StrEl("1"),
      NumEl("#2"),
      Obj("1", UNDEF, "Mine", UNDEF),
      Obj("1", "a", UNDEF, UNDEF),
      Obj(UNDEF, "b", UNDEF, UNDEF),
      Obj(UNDEF, UNDEF, "Mine", UNDEF),
      Obj("1", UNDEF, UNDEF, "own.jpg"),
      NullEl }

SeqsUpTo(S, n) == UNION { [1..k -> S] : k \in 0..n }

NonArrayDocs ==
    { Doc("absent", <<>>), Doc("empty", <<>>),
      Doc("invalid", <<>>), Doc("nonarray", <<>>) }

StoredDocs(n) ==
    NonArrayDocs \cup { Doc("array", l) : l \in SeqsUpTo(StoredElems, n) }

(***************************************************************************)
(* The product catalogue upstream: fetchProductById answers with the       *)
(* product's id (as a string), handle, title and image, or with null when  *)
(* the request fails.                                                      *)
(***************************************************************************)
Catalog(pid) ==
    CASE pid = "1" -> Obj("1", "a", "T1", "img1")
      [] pid = "2" -> Obj("2", "b", "T2", NULLV)
      [] OTHER -> NullEl

\* ok: whether the REST call succeeds; a product that does not exist is a 404.
fetchProductById(product_id, ok) ==
    IF ok THEN Catalog(StringOf(product_id)) ELSE NullEl

\* The catalogue by handle: productByHandle is null for an unknown handle.
CatalogByHandle(handle) ==
    CASE handle = "a" -> Catalog("1")
      [] handle = "b" -> Catalog("2")
      [] OTHER -> NullEl

\* ok: whether the GraphQL call succeeds.
fetchProductByHandle(handle, ok) ==
    IF ok THEN CatalogByHandle(handle) ELSE NullEl

\* { ...item, ...fetched }: every property fetched has replaces item's.
SpreadMerge(item, fetched) ==
    Obj(IF fetched.id # UNDEF THEN fetched.id ELSE item.id,
        IF fetched.handle # UNDEF THEN fetched.handle ELSE item.handle,
        IF fetched.title # UNDEF THEN fetched.title ELSE item.title,
        IF fetched.image # UNDEF THEN fetched.image ELSE item.image)

(***************************************************************************)
(* Requests.  A body holds the fields the handlers destructure; product is *)
(* an array-element value (NoVal when the field is missing).               *)
(***************************************************************************)
Slots == {1, 2}

Body(customer_id, product_id, product_handle, product, expand) ==
    [customer_id |-> customer_id, product_id |-> product_id,
     product_handle |-> product_handle, product |-> product, expand |-> expand]

NoBody == Body(UNDEF, UNDEF, UNDEF, NoVal, UNDEF)

\* error: "none" when the body has no error field, "message" for a string,
\* "userErrors" for the upstream list of user errors.
Resp(status, success, hasList, wishlist) ==
    [status |-> status, success |-> success, hasList |-> hasList,
     wishlist |-> wishlist,
     error |-> IF success \/ status = 0 THEN "none" ELSE "message"]

NoResp == Resp(0, FALSE, FALSE, <<>>)
Resp400 == Resp(400, FALSE, FALSE, <<>>)
Resp500 == Resp(500, FALSE, FALSE, <<>>)
RespOk(wishlist) == Resp(200, TRUE, TRUE, wishlist)

\* status(400).json({ success: false, error: errors }) (lines 936, 1031).
RespUserErrors == [Resp400 EXCEPT !.error = "userErrors"]

\* The mappings field of a body: missing, one object, or an array.
Mappings(kind, elems) == [kind |-> kind, elems |-> elems]

NoMappings == Mappings("undefined", <<>>)

ReqIdle ==
    [pc |-> "idle", op |-> "none", body |-> NoBody,
     load |-> "none",            \* how the load ended: ok, nodata, fail
     loaded |-> Doc("absent", <<>>),   \* the metafield text the load returned
     seen |-> 0,                 \* metafield writes applied before the load
     wishlist |-> <<>>,          \* the handler's local list
     expanded |-> <<>>,          \* Get: the list as the expand loop left it
     failedExpand |-> {},        \* Get: entries whose expand lookup failed
     failedBackfill |-> {},      \* Get: entries whose backfill lookup failed
     newProduct |-> NoVal,       \* Add: the resolved entry
     lookups |-> 0,              \* product lookups issued
     writes |-> 0,               \* metafield writes issued
     write |-> "none",           \* how the write ended: ok, userErrors, fail
     order |-> 0,                \* position of its applied write among all
     replaced |-> Doc("absent", <<>>),   \* Get: what was stored when it wrote
     threw |-> FALSE,            \* an exception reached the outer catch
     sent |-> 0,                 \* responses sent
     keys |-> [handle |-> NULLV, id |-> NULLV],   \* Remove: the removal keys
     mappings |-> NoMappings,    \* AttachHandles: the body's mappings
     items |-> <<>>,             \* AttachHandles: the mappings as an array
     at |-> 0,                   \* AttachHandles: the mapping the loop is at
     changed |-> FALSE,          \* AttachHandles: a mapping changed the list
     resp |-> NoResp]

\* Metafield writes applied so far, over all requests.
Applied == Cardinality({r \in Slots : req[r].order > 0})

\* An outer catch that logs the error and sends nothing.
RespondUnlessCaught(r, rec, resp) ==
    IF resp.status = 500
    THEN req' = [req EXCEPT ![r] = [rec EXCEPT !.pc = "caught"]]
    ELSE req' = [req EXCEPT ![r] = [rec EXCEPT !.pc = "done", !.resp = resp,
                                               !.sent = rec.sent + 1]]

\* res.json(...) or res.status(...).json(...), after which the handler ends.
Respond(r, rec, resp) ==
    req' = [req EXCEPT ![r] = [rec EXCEPT !.pc = "done", !.resp = resp,
                                          !.sent = rec.sent + 1]]

Goto(r, rec, pc) ==
    req' = [req EXCEPT ![r] = [rec EXCEPT !.pc = pc]]

\* The body's product is truthy and typeof product === 'object'.
IsObject(product) == product.kind = "object"

\* !product_id && !product_handle && !product (lines 853, 950).
\* The validation without its selector test.
NoSelectorUnchecked(body) == FALSE

NoSelector(body) ==
    /\ ~Truthy(body.product_id)
    /\ ~Truthy(body.product_handle)
    /\ body.product.kind = "undefined"

\* What the load returns and the list the handler makes of it
\* (lines 769-777, 880-888, 977-985): a response without customer data,
\* or without the wishlist node, gives no edges and so the empty list.
\* A load answered from a copy taken at the start.
LoadedDocStale(outcome) ==
    IF outcome = "ok" THEN stored0 ELSE Doc("absent", <<>>)

LoadedDoc(outcome) ==
    IF outcome = "ok" THEN stored ELSE Doc("absent", <<>>)

LoadedList(outcome) == normalizeWishlistEntries(parseWishlist(LoadedDoc(outcome)))

AfterLoad(rec, outcome) ==
    [rec EXCEPT !.load = outcome, !.loaded = LoadedDoc(outcome),
                !.seen = Applied, !.wishlist = LoadedList(outcome)]

(***************************************************************************)
(* POST /wishlist/add                                                      *)
(***************************************************************************)
Bool3(b) == IF b THEN "true" ELSE "false"

\* The callback of wishlist.some (lines 902-906): "true", "false" or "throw".
\* The callback with its id comparison left out.
addMatchesHandleOnly(item, newProduct) ==
    IF Throws(newProduct) THEN "throw"
    ELSE IF Truthy(newProduct.handle) /\ Throws(item) THEN "throw"
    ELSE IF Truthy(newProduct.handle) /\ Truthy(item.handle)
         THEN Bool3(item.handle = newProduct.handle)
    ELSE "false"

addMatches(item, newProduct) ==
    IF Throws(newProduct) THEN "throw"
    ELSE IF Truthy(newProduct.handle) /\ Throws(item) THEN "throw"
    ELSE IF Truthy(newProduct.handle) /\ Truthy(item.handle)
         THEN Bool3(item.handle = newProduct.handle)
    ELSE IF Truthy(newProduct.id) /\ Throws(item) THEN "throw"
    ELSE IF Truthy(newProduct.id) /\ Truthy(item.id)
         THEN Bool3(StringOf(item.id) = StringOf(newProduct.id))
    ELSE "false"

\* wishlist.some(callback): stops at the first true, or at a throw.
RECURSIVE addExistsFrom(_, _, _)
addExistsFrom(wishlist, newProduct, i) ==
    IF i > Len(wishlist) THEN "false"
    ELSE LET m == addMatches(wishlist[i], newProduct)
         IN IF m = "false" THEN addExistsFrom(wishlist, newProduct, i + 1) ELSE m

addExists(wishlist, newProduct) == addExistsFrom(wishlist, newProduct, 1)

\* if (!exists) wishlist.push(newProduct) (line 908).
addPush(wishlist, newProduct) ==
    IF addExists(wishlist, newProduct) = "true"
    THEN wishlist
    ELSE Append(wishlist, newProduct)

\* Lines 891-899 without the lookup: the product object verbatim, else
\* {handle}, else null (a truthy product that is no object, and nothing else).
addResolve(body) ==
    IF IsObject(body.product) THEN body.product
    ELSE IF Truthy(body.product_handle)
         THEN Obj(UNDEF, StringOf(body.product_handle), UNDEF, UNDEF)
    ELSE NullEl

addNeedsLookup(body) ==
    /\ ~IsObject(body.product)
    /\ ~Truthy(body.product_handle)
    /\ Truthy(body.product_id)

\* Lines 901-908, then on to the write; a throw goes to the outer catch.
AddDedupe(r, rec, newProduct) ==
    IF addExists(rec.wishlist, newProduct) = "throw"
    THEN Respond(r, [rec EXCEPT !.newProduct = newProduct, !.threw = TRUE], Resp500)
    ELSE Goto(r, [rec EXCEPT !.newProduct = newProduct,
                             !.wishlist = addPush(rec.wishlist, newProduct),
                             !.writes = rec.writes + 1], "write")

AddStart(r, body) ==
    /\ req[r].pc = "idle"
    /\ LET rec == [req[r] EXCEPT !.op = "add", !.body = body]
       IN IF ~Truthy(body.customer_id) \/ NoSelector(body)
          THEN Respond(r, rec, Resp400)
          ELSE Goto(r, rec, "load")
    /\ UNCHANGED <<stored, stored0, normIn, normOut, normCount, up>>

AddLoad(r) ==
    /\ req[r].pc = "load" /\ req[r].op = "add"
    /\ \E outcome \in {"ok", "nodata", "fail"} :
         IF outcome = "fail"
         THEN Respond(r, [req[r] EXCEPT !.load = outcome, !.threw = TRUE], Resp500)
         ELSE LET rec == AfterLoad(req[r], outcome)
              IN IF addNeedsLookup(rec.body)
                 THEN Goto(r, [rec EXCEPT !.lookups = 1], "lookup")
                 ELSE AddDedupe(r, rec, addResolve(rec.body))
    /\ UNCHANGED <<stored, stored0, normIn, normOut, normCount, up>>

\* Lines 897-898: fetched || { id: String(product_id) }.
AddLookup(r) ==
    /\ req[r].pc = "lookup" /\ req[r].op = "add"
    /\ \E ok \in BOOLEAN :
         LET fetched == fetchProductById(req[r].body.product_id, ok)
             newProduct == IF fetched.kind = "object" THEN fetched
                           ELSE Obj(StringOf(req[r].body.product_id), UNDEF, UNDEF, UNDEF)
         IN AddDedupe(r, req[r], newProduct)
    /\ UNCHANGED <<stored, stored0, normIn, normOut, normCount, up>>

\* The write guarded by a compare-and-swap on the value that was loaded.
WriteBackCompareAndSwap(r, list) ==
    \E outcome \in {"ok", "userErrors", "fail"} :
        LET rec == [req[r] EXCEPT !.write = outcome] IN
        IF outcome = "ok" /\ stored = rec.loaded
        THEN /\ stored' = JSONstringify(list)
             /\ Respond(r, [rec EXCEPT !.order = Applied + 1], RespOk(list))
        ELSE /\ stored' = stored
             /\ Respond(r, [rec EXCEPT !.order = Applied + 1], Resp400)

\* The write as Get does it: user errors and failures are logged only.
WriteBackBestEffort(r, list) ==
    \E outcome \in {"ok", "userErrors", "fail"} :
        LET rec == [req[r] EXCEPT !.write = outcome] IN
        IF outcome = "ok"
        THEN /\ stored' = JSONstringify(list)
             /\ Respond(r, [rec EXCEPT !.order = Applied + 1], RespOk(list))
        ELSE /\ stored' = stored
             /\ Respond(r, rec, RespOk(list))

\* The customerUpdate mutation (lines 927-939, 1022-1034): applied upstream
\* when it returns without user errors.
WriteBack(r, list) ==
    \E outcome \in {"ok", "userErrors", "fail"} :
        LET rec == [req[r] EXCEPT !.write = outcome] IN
        CASE outcome = "ok" ->
               /\ stored' = JSONstringify(list)
               /\ Respond(r, [rec EXCEPT !.order = Applied + 1], RespOk(list))
          [] outcome = "userErrors" ->
               /\ stored' = stored
               /\ Respond(r, rec, RespUserErrors)
          [] OTHER ->
               /\ stored' = stored
               /\ Respond(r, [rec EXCEPT !.threw = TRUE], Resp500)

AddWrite(r) ==
    /\ req[r].pc = "write" /\ req[r].op = "add"
    /\ WriteBack(r, req[r].wishlist)
    /\ UNCHANGED <<stored0, normIn, normOut, normCount, up>>

(***************************************************************************)
(* POST /wishlist/remove                                                   *)
(***************************************************************************)
\* The removal keys with the object's fields assigned last.
removalKeysObjectLast(body) ==
    LET handle == IF Truthy(body.product_handle)
                  THEN StringOf(body.product_handle) ELSE NULLV
        id == IF Truthy(body.product_id) THEN StringOf(body.product_id) ELSE NULLV
    IN IF IsObject(body.product)
       THEN [handle |-> IF Truthy(body.product.handle)
                        THEN StringOf(body.product.handle) ELSE handle,
             id |-> IF Truthy(body.product.id)
                    THEN StringOf(body.product.id) ELSE id]
       ELSE [handle |-> handle, id |-> id]

\* Lines 988-996, assignment by assignment: both keys null, then the
\* object's fields, then product_handle, then product_id.
removalKeys(body) ==
    LET none == [handle |-> NULLV, id |-> NULLV]
        fromObject ==
            IF IsObject(body.product)
            THEN [handle |-> IF Truthy(body.product.handle)
                             THEN StringOf(body.product.handle) ELSE none.handle,
                  id |-> IF Truthy(body.product.id)
                         THEN StringOf(body.product.id) ELSE none.id]
            ELSE none
        withHandle ==
            IF Truthy(body.product_handle)
            THEN [fromObject EXCEPT !.handle = StringOf(body.product_handle)]
            ELSE fromObject
    IN IF Truthy(body.product_id)
       THEN [withHandle EXCEPT !.id = StringOf(body.product_id)]
       ELSE withHandle

handleToRemove(body) == removalKeys(body).handle

idToRemove(body) == removalKeys(body).id

\* The callback of wishlist.filter (lines 998-1003): "keep", "drop" or "throw".
\* The filter with its handle branch left out.
removeKeepsIdOnly(item, h, i) ==
    IF Truthy(i) /\ Throws(item) THEN "throw"
    ELSE IF Truthy(i) /\ Truthy(item.id)
         THEN (IF StringOf(item.id) # i THEN "keep" ELSE "drop")
    ELSE "keep"

removeKeeps(item, h, i) ==
    IF Truthy(h) /\ Throws(item) THEN "throw"
    ELSE IF Truthy(h) /\ Truthy(item.handle)
         THEN (IF item.handle # h THEN "keep" ELSE "drop")
    ELSE IF Truthy(i) /\ Throws(item) THEN "throw"
    ELSE IF Truthy(i) /\ Truthy(item.id)
         THEN (IF StringOf(item.id) # i THEN "keep" ELSE "drop")
    ELSE "keep"

removeThrows(wishlist, h, i) ==
    \E k \in 1..Len(wishlist) : removeKeeps(wishlist[k], h, i) = "throw"

removeFilter(wishlist, h, i) ==
    LET keeps(item) == removeKeeps(item, h, i) = "keep"
    IN SelectSeq(wishlist, keeps)

RemoveStart(r, body) ==
    /\ req[r].pc = "idle"
    /\ LET rec == [req[r] EXCEPT !.op = "remove", !.body = body]
       IN IF ~Truthy(body.customer_id) \/ NoSelector(body)
          THEN Respond(r, rec, Resp400)
          ELSE Goto(r, rec, "load")
    /\ UNCHANGED <<stored, stored0, normIn, normOut, normCount, up>>

RemoveLoad(r) ==
    /\ req[r].pc = "load" /\ req[r].op = "remove"
    /\ \E outcome \in {"ok", "nodata", "fail"} :
         IF outcome = "fail"
         THEN Respond(r, [req[r] EXCEPT !.load = outcome, !.threw = TRUE], Resp500)
         ELSE LET h == handleToRemove(req[r].body)
                  i == idToRemove(req[r].body)
                  rec == [AfterLoad(req[r], outcome) EXCEPT
                            !.keys = [handle |-> h, id |-> i]]
              IN IF removeThrows(rec.wishlist, h, i)
                 THEN Respond(r, [rec EXCEPT !.threw = TRUE], Resp500)
                 ELSE Goto(r, [rec EXCEPT !.wishlist = removeFilter(rec.wishlist, h, i),
                                          !.writes = rec.writes + 1], "write")
    /\ UNCHANGED <<stored, stored0, normIn, normOut, normCount, up>>

RemoveWrite(r) ==
    /\ req[r].pc = "write" /\ req[r].op = "remove"
    /\ WriteBack(r, req[r].wishlist)
    /\ UNCHANGED <<stored0, normIn, normOut, normCount, up>>

(***************************************************************************)
(* GET /wishlist                                                           *)
(***************************************************************************)
\* Lines 780-788: with expand=true, an entry with an id and neither title nor
\* handle is looked up and merged.  ok[i]: whether the lookup for entry i
\* succeeds.
expandWanted(item) ==
    /\ ~Throws(item)
    /\ Truthy(item.id)
    /\ ~Truthy(item.title) /\ ~Truthy(item.handle)

expandEntry(item, ok) ==
    LET fetched == fetchProductById(item.id, ok)
    IN IF expandWanted(item) /\ fetched.kind = "object"
       THEN SpreadMerge(item, fetched)
       ELSE item

expandAll(wishlist, ok) ==
    [i \in 1..Len(wishlist) |-> expandEntry(wishlist[i], ok[i])]

\* Lines 793-802: an entry with an id and no handle is looked up; it is
\* merged when the product came with a handle.
backfillWanted(item) ==
    /\ ~Throws(item)
    /\ Truthy(item.id)
    /\ ~Truthy(item.handle)

backfillHit(item, ok) ==
    LET fetched == fetchProductById(item.id, ok)
    IN backfillWanted(item) /\ fetched.kind = "object" /\ Truthy(fetched.handle)

\* A failed lookup leaving its mark on the entry: handle set to null.
backfillEntryMarked(item, ok) ==
    IF backfillHit(item, ok)
    THEN SpreadMerge(item, fetchProductById(item.id, ok))
    ELSE IF backfillWanted(item) THEN [item EXCEPT !.handle = NULLV]
    ELSE item

backfillEntry(item, ok) ==
    IF backfillHit(item, ok)
    THEN SpreadMerge(item, fetchProductById(item.id, ok))
    ELSE item

backfillAll(wishlist, ok) ==
    [i \in 1..Len(wishlist) |-> backfillEntry(wishlist[i], ok[i])]

\* Persisting whether or not an entry changed, as Add and Remove do.
needSaveAlways(wishlist, ok) == TRUE

\* Never persisting what the backfill loop changed.
needSaveNever(wishlist, ok) == FALSE

needSave(wishlist, ok) ==
    \E i \in 1..Len(wishlist) : backfillHit(wishlist[i], ok[i])

CountWanted(wishlist, Wanted(_)) ==
    Cardinality({i \in 1..Len(wishlist) : Wanted(wishlist[i])})

GetStart(r, body) ==
    /\ req[r].pc = "idle"
    /\ LET rec == [req[r] EXCEPT !.op = "get", !.body = body]
       IN IF ~Truthy(body.customer_id)
          THEN Respond(r, rec, Resp400)
          ELSE Goto(r, rec, "load")
    /\ UNCHANGED <<stored, stored0, normIn, normOut, normCount, up>>

GetLoad(r) ==
    /\ req[r].pc = "load" /\ req[r].op = "get"
    /\ \E outcome \in {"ok", "nodata", "fail"} :
         IF outcome = "fail"
         THEN Respond(r, [req[r] EXCEPT !.load = outcome, !.threw = TRUE], Resp500)
         ELSE Goto(r, AfterLoad(req[r], outcome), "enrich")
    /\ UNCHANGED <<stored, stored0, normIn, normOut, normCount, up>>

\* The two loops of product lookups (lines 780-802), each lookup succeeding
\* or failing on its own; then the write when needSave, else the response.
GetEnrich(r) ==
    /\ req[r].pc = "enrich" /\ req[r].op = "get"
    /\ LET n == Len(req[r].wishlist) IN
       \E okExpand \in [1..n -> BOOLEAN], okBackfill \in [1..n -> BOOLEAN] :
         LET expanded == IF req[r].body.expand = "true"
                         THEN expandAll(req[r].wishlist, okExpand)
                         ELSE req[r].wishlist
             filled == backfillAll(expanded, okBackfill)
             calls == (IF req[r].body.expand = "true"
                       THEN CountWanted(req[r].wishlist, expandWanted) ELSE 0)
                      + CountWanted(expanded, backfillWanted)
             rec == [req[r] EXCEPT
                       !.wishlist = filled, !.expanded = expanded,
                       !.failedExpand =
                           IF req[r].body.expand = "true"
                           THEN {i \in 1..n : expandWanted(req[r].wishlist[i])
                                              /\ ~okExpand[i]}
                           ELSE {},
                       !.failedBackfill =
                           {i \in 1..n : backfillWanted(expanded[i]) /\ ~okBackfill[i]},
                       !.lookups = calls]
         IN IF needSave(expanded, okBackfill)
            THEN Goto(r, [rec EXCEPT !.writes = rec.writes + 1], "write")
            ELSE Respond(r, rec, RespOk(filled))
    /\ UNCHANGED <<stored, stored0, normIn, normOut, normCount, up>>

\* Lines 821-842: the write's user errors and failures are logged only.
GetWrite(r) ==
    /\ req[r].pc = "write" /\ req[r].op = "get"
    /\ \E outcome \in {"ok", "userErrors", "fail"} :
         LET rec == [req[r] EXCEPT !.write = outcome, !.replaced = stored] IN
         IF outcome = "ok"
         THEN /\ stored' = JSONstringify(rec.wishlist)
              /\ Respond(r, [rec EXCEPT !.order = Applied + 1], RespOk(rec.wishlist))
         ELSE /\ stored' = stored
              /\ Respond(r, rec, RespOk(rec.wishlist))
    /\ UNCHANGED <<stored0, normIn, normOut, normCount, up>>

(***************************************************************************)
(* POST /wishlist/attach-handles                                           *)
(***************************************************************************)
\* Line 1047: Array.isArray(mappings) ? mappings : [mappings].
attachItems(mappings) ==
    IF mappings.kind = "array" THEN mappings.elems ELSE <<mappings.elems[1]>>

\* Lines 1087-1088: mapping?.id ? String(mapping.id) : null, and the handle.
mappingId(mapping) ==
    IF ~Throws(mapping) /\ Truthy(mapping.id) THEN StringOf(mapping.id) ELSE NULLV

mappingHandle(mapping) ==
    IF ~Throws(mapping) /\ Truthy(mapping.handle)
    THEN StringOf(mapping.handle) ELSE NULLV

\* wishlist.findIndex(callback), given the indices whose element satisfies
\* the callback: the first of them, 0 for -1.
findIndex(hits) ==
    IF hits = {} THEN 0
    ELSE CHOOSE k \in hits : \A j \in hits : k <= j

\* w => w && String(w.id) === mappingId (lines 1098, 1115).
findById(wishlist, id) ==
    findIndex({k \in 1..Len(wishlist) :
                 ~Throws(wishlist[k]) /\ StringOf(wishlist[k].id) = id})

\* w => w && w.handle === fetched.handle (line 1099).
findByHandle(wishlist, fetched) ==
    findIndex({k \in 1..Len(wishlist) :
                 ~Throws(wishlist[k]) /\ wishlist[k].handle = fetched.handle})

\* Lines 1097-1099: by id first when the mapping has one, then by the
\* fetched product's handle.
attachFound(wishlist, id, fetched) ==
    LET byId == IF Truthy(id) THEN findById(wishlist, id) ELSE 0
    IN IF byId = 0 /\ fetched.kind = "object"
       THEN findByHandle(wishlist, fetched)
       ELSE byId

\* The callback of wishlist.some at line 1106: "true", "false" or "throw".
attachMatches(w, id, fetched) ==
    LET byHandle == fetched.kind = "object" /\ Truthy(fetched.handle)
    IN IF byHandle /\ Throws(w) THEN "throw"
       ELSE IF byHandle /\ w.handle = fetched.handle THEN "true"
       ELSE IF Truthy(id) /\ Throws(w) THEN "throw"
       ELSE Bool3(Truthy(id) /\ Truthy(w.id) /\ StringOf(w.id) = id)

RECURSIVE attachExistsFrom(_, _, _, _)
attachExistsFrom(wishlist, id, fetched, k) ==
    IF k > Len(wishlist) THEN "false"
    ELSE LET m == attachMatches(wishlist[k], id, fetched)
         IN IF m = "false" THEN attachExistsFrom(wishlist, id, fetched, k + 1) ELSE m

attachExists(wishlist, id, fetched) == attachExistsFrom(wishlist, id, fetched, 1)

\* Line 1108: fetched || (mappingId ? {id, handle} : {handle}).
attachNew(id, handle, fetched) ==
    IF fetched.kind = "object" THEN fetched
    ELSE Obj(IF Truthy(id) THEN id ELSE UNDEF, handle, UNDEF, UNDEF)

\* What one pass of the loop body makes of the list.
AttachOut(wishlist, changed, threw, lookups) ==
    [wishlist |-> wishlist, changed |-> changed, threw |-> threw,
     lookups |-> lookups]

\* Lines 1092-1111: the mapping has a handle.
attachByHandle(wishlist, id, handle, ok) ==
    LET fetched == fetchProductByHandle(handle, ok)
        found == attachFound(wishlist, id, fetched)
        exists == attachExists(wishlist, id, fetched)
    IN IF found # 0
       THEN AttachOut([wishlist EXCEPT ![found] =
                          SpreadMerge(wishlist[found],
                                      IF fetched.kind = "object" THEN fetched
                                      ELSE Obj(UNDEF, handle, UNDEF, UNDEF))],
                      TRUE, FALSE, 1)
       ELSE IF exists = "throw" THEN AttachOut(wishlist, FALSE, TRUE, 1)
       ELSE IF exists = "true" THEN AttachOut(wishlist, FALSE, FALSE, 1)
       ELSE AttachOut(Append(wishlist, attachNew(id, handle, fetched)),
                      TRUE, FALSE, 1)

\* Lines 1113-1123: the mapping has an id only.
attachById(wishlist, id, ok) ==
    LET idx == findById(wishlist, id)
        fetched == fetchProductById(id, ok)
    IN IF idx = 0 THEN AttachOut(wishlist, FALSE, FALSE, 0)
       ELSE IF /\ fetched.kind = "object" /\ Truthy(fetched.handle)
               /\ fetched.handle # wishlist[idx].handle
            THEN AttachOut([wishlist EXCEPT ![idx] = SpreadMerge(wishlist[idx], fetched)],
                           TRUE, FALSE, 1)
       ELSE AttachOut(wishlist, FALSE, FALSE, 1)

\* Lines 1086-1124, one mapping.
attachMapping(wishlist, mapping, ok) ==
    LET id == mappingId(mapping)
        handle == mappingHandle(mapping)
    IN IF Truthy(handle) THEN attachByHandle(wishlist, id, handle, ok)
       ELSE IF Truthy(id) THEN attachById(wishlist, id, ok)
       ELSE AttachOut(wishlist, FALSE, FALSE, 0)

\* On to the next mapping; after the last one the write when changed
\* (line 1127), else the response (line 1162).
AttachAdvance(r, rec) ==
    IF rec.at <= Len(rec.items) THEN Goto(r, rec, "map")
    ELSE IF rec.changed THEN Goto(r, [rec EXCEPT !.writes = rec.writes + 1], "write")
    ELSE Respond(r, rec, RespOk(rec.wishlist))

AttachStart(r, customer_id, mappings) ==
    /\ req[r].pc = "idle"
    /\ LET rec == [req[r] EXCEPT !.op = "attach",
                                 !.body = Body(customer_id, UNDEF, UNDEF, NoVal, UNDEF),
                                 !.mappings = mappings]
       IN IF ~Truthy(customer_id) \/ mappings.kind = "undefined"
          THEN Respond(r, rec, Resp400)
          ELSE Goto(r, [rec EXCEPT !.items = attachItems(mappings)], "load")
    /\ UNCHANGED <<stored, stored0, normIn, normOut, normCount, up>>

AttachLoad(r) ==
    /\ req[r].pc = "load" /\ req[r].op = "attach"
    /\ \E outcome \in {"ok", "nodata", "fail"} :
         IF outcome = "fail"
         THEN Respond(r, [req[r] EXCEPT !.load = outcome, !.threw = TRUE], Resp500)
         ELSE AttachAdvance(r, [AfterLoad(req[r], outcome) EXCEPT !.at = 1])
    /\ UNCHANGED <<stored, stored0, normIn, normOut, normCount, up>>

\* The loop body for the mapping the loop is at, its product lookup
\* succeeding or failing.
AttachMap(r) ==
    /\ req[r].pc = "map" /\ req[r].op = "attach"
    /\ \E ok \in BOOLEAN :
         LET out == attachMapping(req[r].wishlist, req[r].items[req[r].at], ok)
             rec == [req[r] EXCEPT !.wishlist = out.wishlist,
                                   !.changed = req[r].changed \/ out.changed,
                                   !.lookups = req[r].lookups + out.lookups,
                                   !.at = req[r].at + 1]
         IN IF out.threw
            THEN Respond(r, [rec EXCEPT !.threw = TRUE], Resp500)
            ELSE AttachAdvance(r, rec)
    /\ UNCHANGED <<stored, stored0, normIn, normOut, normCount, up>>

\* Lines 1144-1162: the write's user errors and failures are logged only.
AttachWrite(r) ==
    /\ req[r].pc = "write" /\ req[r].op = "attach"
    /\ \E outcome \in {"ok", "userErrors", "fail"} :
         LET rec == [req[r] EXCEPT !.write = outcome] IN
         IF outcome = "ok"
         THEN /\ stored' = JSONstringify(rec.wishlist)
              /\ Respond(r, [rec EXCEPT !.order = Applied + 1], RespOk(rec.wishlist))
         ELSE /\ stored' = stored
              /\ Respond(r, rec, RespOk(rec.wishlist))
    /\ UNCHANGED <<stored0, normIn, normOut, normCount, up>>

(***************************************************************************)
(* The request bodies the model draws from.                                *)
(***************************************************************************)
ProductArgs ==
    { NoVal,
      Obj("1", "b", UNDEF, UNDEF),
      Obj(UNDEF, UNDEF, "Mine", UNDEF),
      StrEl("x") }

SelectorBodies ==
    { Body("5", pid, ph, p, UNDEF) :
        pid \in {UNDEF, "1", "#2"}, ph \in {UNDEF, "a", "b"}, p \in ProductArgs }
    \cup { Body(UNDEF, "1", UNDEF, NoVal, UNDEF) }

GetBodies ==
    { Body(c, UNDEF, UNDEF, NoVal, e) : c \in {"5"}, e \in {UNDEF, "true"} }
    \cup { Body(UNDEF, UNDEF, UNDEF, NoVal, UNDEF) }

\* The mappings AttachHandles is called with: arrays of an id the catalogue
\* knows and a handle it knows, either of them as a single object, and on
\* their own an id with a handle the catalogue does not know, and null.
MaxMappings == 2

MappingElems ==
    { Obj("1", UNDEF, UNDEF, UNDEF),
      Obj(UNDEF, "b", UNDEF, UNDEF) }

MappingsArgs ==
    { NoMappings,
      Mappings("array", <<Obj("#2", "zz", UNDEF, UNDEF)>>),
      Mappings("array", <<NullEl>>) }
    \cup { Mappings("object", <<m>>) : m \in MappingElems }
    \cup { Mappings("array", l) : l \in SeqsUpTo(MappingElems, MaxMappings) }

(***************************************************************************)
(* One request at a time: a stored value, then one Get, Add, Remove or     *)
(* AttachHandles.                                                          *)
(***************************************************************************)
IdleRest ==
    /\ normIn = <<>> /\ normOut = <<>> /\ normCount = 0
    /\ up = [pc |-> "off"]

Init ==
    /\ stored \in StoredDocs(MaxLen)
    /\ stored0 = stored
    /\ req = [r \in Slots |-> ReqIdle]
    /\ IdleRest

Next ==
    \/ \E body \in GetBodies : GetStart(1, body)
    \/ \E body \in SelectorBodies : AddStart(1, body)
    \/ \E body \in SelectorBodies : RemoveStart(1, body)
    \/ GetLoad(1)
    \/ GetEnrich(1)
    \/ GetWrite(1)
    \/ AddLoad(1)
    \/ AddLookup(1)
    \/ AddWrite(1)
    \/ RemoveLoad(1)
    \/ RemoveWrite(1)
    \/ \E c \in {UNDEF, "5"}, mappings \in MappingsArgs : AttachStart(1, c, mappings)
    \/ AttachLoad(1)
    \/ AttachMap(1)
    \/ AttachWrite(1)

Spec == Init /\ [][Next]_vars

(***************************************************************************)
(* What the claims speak of.                                               *)
(***************************************************************************)
\* The normalized wishlist the metafield held at the start.
Before == normalizeWishlistEntries(parseWishlist(stored0))

\* The normalized wishlist the metafield holds now.
Now == normalizeWishlistEntries(parseWishlist(stored))

HasHandle(e) == e.kind = "object" /\ Truthy(e.handle)
HasId(e) == e.kind = "object" /\ Truthy(e.id)

\* The identity rule: the handles match when both have one, or the ids match
\* (compared as strings) when both have one.
SameProduct(a, b) ==
    \/ HasHandle(a) /\ HasHandle(b) /\ a.handle = b.handle
    \/ HasId(a) /\ HasId(b) /\ StringOf(a.id) = StringOf(b.id)

UniqueByIdentity(list) ==
    \A i, j \in 1..Len(list) : i # j => ~SameProduct(list[i], list[j])

\* A selector the interface names: product_id, product_handle or a product
\* object (a product that is no object is none of them).
ValidSelector(body) ==
    /\ Truthy(body.customer_id)
    /\ ~NoSelector(body)
    /\ body.product.kind \in {"undefined", "object"}

\* Request r has ended, its load returned the stored metafield, and no
\* upstream call after it failed or returned user errors.
UpstreamFine(r) ==
    /\ req[r].pc = "done"
    /\ req[r].load = "ok"
    /\ req[r].write \in {"none", "ok"}

\* C1: Add keeps the wishlist unique by the identity rule: from a stored
\* wishlist with no two entries the same product, the list Add persists and
\* returns has no two entries the same product.
C1_AddKeepsUnique ==
    ( /\ req[1].op = "add" /\ UpstreamFine(1) /\ req[1].resp.success
      /\ ValidSelector(req[1].body)
      /\ UniqueByIdentity(Before) )
    => /\ UniqueByIdentity(req[1].resp.wishlist)
       /\ UniqueByIdentity(Now)

\* C5: Get, Add, Remove and AttachHandles never answer with an error because
\* of the value stored in the metafield: when every upstream call went well
\* and the selector is valid, the response is a success.
C5_StoredValueNeverErrors ==
    ( /\ req[1].op \in {"get", "add", "remove", "attach"} /\ UpstreamFine(1)
      /\ (ValidSelector(req[1].body) \/ req[1].op \in {"get", "attach"}) )
    => req[1].resp.success

\* C6: Get on a metafield that is absent, empty, invalid JSON or JSON that is
\* no array answers success:true with wishlist [] and writes nothing.
C6_GetFailsOpen ==
    ( /\ req[1].op = "get" /\ req[1].load = "ok"
      /\ req[1].loaded.kind # "array" )
    => /\ req[1].writes = 0
       /\ stored = stored0
       /\ req[1].pc = "done" => req[1].resp = RespOk(<<>>)

\* Get has answered for a metafield holding text that is no JSON.
C6_Witness ==
    /\ req[1].op = "get" /\ req[1].pc = "done" /\ req[1].load = "ok"
    /\ req[1].loaded.kind = "invalid"
    /\ req[1].resp.success

\* The stored array holds bare ids only (the legacy format), at least one.
LegacyIds(doc) ==
    /\ doc.kind = "array" /\ Len(doc.elems) > 0
    /\ \A i \in 1..Len(doc.elems) : doc.elems[i].kind \in {"string", "number"}

BareId(item) == Obj(StringOfEl(item), UNDEF, UNDEF, UNDEF)

ClaimedMatch(e, body) ==
    \/ Truthy(handleToRemove(body)) /\ HasHandle(e)
         /\ StringOf(e.handle) = handleToRemove(body)
    \/ Truthy(idToRemove(body)) /\ HasId(e)
         /\ StringOf(e.id) = idToRemove(body)

\* C9: Remove deletes exactly the entries the claimed rule matches and keeps
\* every other entry in its original relative order.
C9_RemoveExactlyMatching ==
    ( /\ req[1].op = "remove" /\ UpstreamFine(1) /\ req[1].resp.success
      /\ ValidSelector(req[1].body) )
    => LET unmatched(e) == ~ClaimedMatch(e, req[1].body)
       IN req[1].resp.wishlist = SelectSeq(Before, unmatched)

\* C10: Remove with a selector that matches no entry, neither by handle nor
\* by id, returns and persists the normalized wishlist unchanged.
C10_RemoveNoMatchUnchanged ==
    ( /\ req[1].op = "remove" /\ UpstreamFine(1)
      /\ ValidSelector(req[1].body)
      /\ \A k \in 1..Len(Before) : ~ClaimedMatch(Before[k], req[1].body) )
    => /\ req[1].resp = RespOk(Before)
       /\ stored = JSONstringify(Before)

\* Every element of the list is an entry: an object (a bare id is one once
\* normalized), never null.
AllEntries(list) == \A k \in 1..Len(list) : list[k].kind = "object"

\* Add was called with product_handle and no product object.
AddByHandle(r) ==
    /\ req[r].op = "add"
    /\ Truthy(req[r].body.customer_id)
    /\ ~IsObject(req[r].body.product)
    /\ Truthy(req[r].body.product_handle)

\* C11: Add with product_handle h and no product object, against a wishlist
\* in which no entry has handle h, appends exactly {handle: h} at the
\* end and leaves the existing entries unchanged and in their order; that
\* list is what it returns and what it persists.
C11_AddHandleAppends ==
    ( /\ AddByHandle(1) /\ UpstreamFine(1)
      /\ \A k \in 1..Len(Before) :
            ~(HasHandle(Before[k])
              /\ Before[k].handle = StringOf(req[1].body.product_handle)) )
    => LET added == Append(Before, Obj(UNDEF, StringOf(req[1].body.product_handle),
                                      UNDEF, UNDEF))
       IN /\ req[1].resp = RespOk(added)
          /\ stored = JSONstringify(added)

\* Add was called with product_id "1" alone and its lookup returned the
\* product {id:"1", handle:"a"}.
AddByIdResolved(r) ==
    /\ req[r].op = "add" /\ req[r].load = "ok"
    /\ addNeedsLookup(req[r].body)
    /\ StringOf(req[r].body.product_id) = "1"
    /\ req[r].pc \in {"write", "done"}
    /\ req[r].newProduct = Catalog("1")

\* The wishlist holds {id:"1"} or {id:"1", handle:"a"}.
HoldsProduct1(list) ==
    \E k \in 1..Len(list) :
        /\ HasId(list[k]) /\ StringOf(list[k].id) = "1"
        /\ list[k].handle \in {UNDEF, "a"}

\* C12: Add with product_id "1" whose lookup resolves to {id:"1",
\* handle:"a"} appends nothing when the wishlist already holds {id:"1"} or
\* {id:"1", handle:"a"}: the list it goes on to write, the list it returns
\* and the stored list have the length the wishlist had before.
C12_AddResolvedNoDuplicate ==
    ( AddByIdResolved(1) /\ HoldsProduct1(Before) )
    => /\ Len(req[1].wishlist) = Len(Before)
       /\ Len(Now) = Len(Before)
       /\ req[1].resp.success => Len(req[1].resp.wishlist) = Len(Before)

\* Add product_id "1" has answered success for the stored [{handle:"b"},
\* {id:"1"}]: the first entry's handle differs, the second entry's id matches.
C12_Witness ==
    /\ AddByIdResolved(1) /\ req[1].resp.success
    /\ stored0 = Doc("array", <<Obj(UNDEF, "b", UNDEF, UNDEF), StrEl("1")>>)
    /\ Len(req[1].resp.wishlist) = 2

\* The entry invariant: an entry has at least one of id or handle.
HasIdOrHandle(e) == HasId(e) \/ HasHandle(e)

EntryInvariant(list) == \A k \in 1..Len(list) : HasIdOrHandle(list[k])

\* C13: from a stored wishlist in which every entry has at least one of id
\* or handle, after a successful Get, Add, Remove or AttachHandles with a
\* valid selector (a caller-supplied product object included), every entry
\* of the stored wishlist has at least one of id or handle.
C13_EntryInvariantKept ==
    ( /\ EntryInvariant(Before)
      /\ req[1].pc = "done" /\ req[1].resp.success
      /\ req[1].op \in {"add", "remove"} => ValidSelector(req[1].body) )
    => EntryInvariant(Now)

\* C15: Add and Remove surface persistence failures.  When the metafield
\* write returns user errors the response is HTTP 400 with success:false and
\* the upstream error list; when it fails at transport level the response is
\* HTTP 500 with success:false; success:true with a wishlist is sent only
\* when the write returned without user errors.
C15_WriteFailuresSurfaced ==
    ( req[1].op \in {"add", "remove"} /\ req[1].pc = "done" )
    => /\ req[1].write = "userErrors"
            => /\ req[1].resp = RespUserErrors
               /\ req[1].resp.status = 400 /\ ~req[1].resp.success
       /\ req[1].write = "fail"
            => /\ req[1].resp.status = 500 /\ ~req[1].resp.success
               /\ ~req[1].resp.hasList
       /\ req[1].resp.success
            => /\ req[1].write = "ok" /\ req[1].writes = 1
               /\ req[1].resp.hasList

\* A Remove whose write came back with user errors has been answered 400
\* with the error list.
C15_Witness ==
    /\ req[1].op = "remove" /\ req[1].pc = "done"
    /\ req[1].write = "userErrors"
    /\ req[1].resp.error = "userErrors" /\ req[1].resp.status = 400

\* C16: a malformed upstream response is an error.  When the answer to the
\* wishlist load of Get, Add, Remove or AttachHandles is delivered without
\* customer data, the request ends there with HTTP 500 and success:false.
C16_MalformedLoadIsError ==
    ( req[1].op \in {"get", "add", "remove", "attach"} /\ req[1].load = "nodata" )
    => /\ req[1].pc = "done"
       /\ req[1].resp.status = 500 /\ ~req[1].resp.success

\* The normalized list request r loaded.
LoadedBy(r) == normalizeWishlistEntries(parseWishlist(req[r].loaded))

\* Get's load has returned and its two lookup loops have run.
GetEnriched(r) ==
    /\ req[r].op = "get" /\ req[r].pc \in {"write", "done"}
    /\ req[r].load \in {"ok", "nodata"}

\* Some entry that had an id and no handle in list a has a handle in list b.
GainedHandle(a, b) ==
    \E i \in 1..Len(a) : HasId(a[i]) /\ ~HasHandle(a[i]) /\ HasHandle(b[i])

\* Whatever the outcome of the write, Get answers success:true with the
\* enriched list it holds in memory.
GetAnswersInMemory(r) ==
    /\ req[r].writes <= 1
    /\ req[r].pc = "done" => req[r].resp = RespOk(req[r].wishlist)

\* C18 as claimed: Get issues a metafield write if and only if at least one
\* entry with an id and no handle received a handle from a product lookup,
\* and whether that write succeeds, returns user errors or fails, Get answers
\* success:true with the in-memory enriched list.
C18_BackfillWriteIff ==
    GetEnriched(1)
    => /\ req[1].writes = 1
            <=> GainedHandle(normalizeWishlistEntries(parseWishlist(req[1].loaded)),
                             req[1].wishlist)
       /\ GetAnswersInMemory(1)

\* C18 as amended: Get issues a metafield write if and only if, in the
\* backfill loop, at least one entry that had an id and no handle after the
\* expand loop received a handle from its lookup (a handle the expand loop
\* merged in causes no write); whatever the outcome of the write, Get answers
\* success:true with the in-memory enriched list.
C18_BackfillLoopWriteIff ==
    GetEnriched(1)
    => /\ req[1].writes = 1 <=> GainedHandle(req[1].expanded, req[1].wishlist)
       /\ GetAnswersInMemory(1)

\* Get has answered success with the enriched list [{id:"1", handle:"a",
\* ...}] although its write came back with user errors and ["1"] is still
\* what is stored.
C18_Witness ==
    /\ GetEnriched(1) /\ req[1].pc = "done"
    /\ req[1].write = "userErrors"
    /\ req[1].resp = RespOk(<<Catalog("1")>>)
    /\ stored = Doc("array", <<StrEl("1")>>)

\* Entry e keeps in m its own value of every field it has.
KeepsOwnFields(e, m) ==
    /\ e.id # UNDEF => m.id = e.id
    /\ e.handle # UNDEF => m.handle = e.handle
    /\ e.title # UNDEF => m.title = e.title
    /\ e.image # UNDEF => m.image = e.image

\* C19: in Get with expand=true, when the product lookup succeeds for an
\* entry, the merged entry keeps the entry's own value of every field the
\* entry already had and takes the fetched value only for the fields it
\* lacked.
C19_ExpandEntryFieldsWin ==
    ( GetEnriched(1) /\ req[1].body.expand = "true" )
    => LET list == normalizeWishlistEntries(parseWishlist(req[1].loaded))
       IN \A i \in 1..Len(list) :
            (list[i].kind = "object" /\ req[1].expanded[i] # list[i])
            => KeepsOwnFields(list[i], req[1].expanded[i])

\* C20: every Add that passes validation and whose load succeeds issues
\* exactly one write of the full wishlist array, also when the duplicate
\* check found the product already present and the list did not change.
C20_AddAlwaysWrites ==
    ( /\ req[1].op = "add" /\ req[1].pc = "done"
      /\ req[1].load \in {"ok", "nodata"} )
    => /\ req[1].writes = 1
       /\ req[1].write # "none"

\* A field the request gives: present and not empty.
Given(v) == v \notin {UNDEF, NULLV, ""}

\* Remove has computed its removal keys for a body with a product object.
RemoveKeyed(r) ==
    /\ req[r].op = "remove" /\ req[r].load \in {"ok", "nodata"}
    /\ IsObject(req[r].body.product)

\* C24: Remove's selector precedence.  When the request carries a product
\* object together with product_handle and/or product_id, the handle target
\* is product_handle if given, else product.handle, and the id target is
\* product_id if given, else product.id.
C24_RemoveDiscreteFieldsWin ==
    RemoveKeyed(1)
    => LET body == req[1].body IN
       /\ req[1].keys.handle =
            IF Given(body.product_handle) THEN StringOf(body.product_handle)
            ELSE IF Given(body.product.handle) THEN StringOf(body.product.handle)
            ELSE NULLV
       /\ req[1].keys.id =
            IF Given(body.product_id) THEN StringOf(body.product_id)
            ELSE IF Given(body.product.id) THEN StringOf(body.product.id)
            ELSE NULLV

\* Remove was called with product {id:"1", handle:"b"}, product_handle "a"
\* and product_id 2: its keys are handle "a" and id "2".
C24_Witness ==
    /\ RemoveKeyed(1)
    /\ req[1].body.product = Obj("1", "b", UNDEF, UNDEF)
    /\ req[1].body.product_handle = "a" /\ req[1].body.product_id = "#2"
    /\ req[1].keys = [handle |-> "a", id |-> "2"]

\* Add has passed validation, its load has returned, and it is past its
\* resolution and duplicate-check steps (or has failed in them).
AddResolved(r) ==
    /\ req[r].op = "add" /\ req[r].load \in {"ok", "nodata"}
    /\ req[r].pc \in {"write", "done"}

\* C25: Add resolves the new entry for every request that passes
\* validation: a product object is used verbatim; otherwise product_handle h
\* gives {handle: h} with no lookup; otherwise product_id i triggers exactly
\* one lookup by id and gives the fetched product, or {id: i} if the lookup
\* fails; the request always yields an entry and never fails in the
\* resolution or duplicate-check step.
C25_AddAlwaysResolves ==
    AddResolved(1)
    => LET body == req[1].body
           entry == req[1].newProduct
       IN /\ entry.kind = "object"
          /\ req[1].threw => req[1].write = "fail"
          /\ IF IsObject(body.product)
             THEN entry = body.product /\ req[1].lookups = 0
             ELSE IF Given(body.product_handle)
             THEN /\ entry = Obj(UNDEF, StringOf(body.product_handle), UNDEF, UNDEF)
                  /\ req[1].lookups = 0
             ELSE /\ req[1].lookups = 1
                  /\ entry \in { Catalog(StringOf(body.product_id)),
                                  Obj(StringOf(body.product_id), UNDEF, UNDEF, UNDEF) }

\* C26: in Get a failed product lookup, in the expand step or in the handle
\* backfill step, leaves its entry as it was (exactly as after normalization
\* when no lookup for it succeeded) and never aborts the request: Get
\* answers success:true with a list of the length and order of the
\* normalized stored list.
C26_GetLookupFailureHarmless ==
    GetEnriched(1)
    => LET list == LoadedBy(1) IN
       /\ ~req[1].threw
       /\ Len(req[1].wishlist) = Len(list)
       /\ req[1].pc = "done" => req[1].resp = RespOk(req[1].wishlist)
       /\ \A i \in 1..Len(list) :
            /\ i \in req[1].failedExpand => req[1].expanded[i] = list[i]
            /\ i \in req[1].failedBackfill => req[1].wishlist[i] = req[1].expanded[i]
            /\ req[1].wishlist[i] # list[i]
                 => /\ HasId(list[i])
                    /\ StringOf(req[1].wishlist[i].id) = StringOf(list[i].id)
                    /\ i \in req[1].failedExpand => i \notin req[1].failedBackfill

\* Get with expand=true has answered for the stored ["1", 2]: both lookups
\* for "1" failed and it is returned as {id:"1"}; 2 was looked up and merged.
C26_Witness ==
    /\ GetEnriched(1) /\ req[1].pc = "done"
    /\ req[1].body.expand = "true"
    /\ req[1].loaded = Doc("array", <<StrEl("1"), NumEl("#2")>>)
    /\ 1 \in req[1].failedExpand /\ 1 \in req[1].failedBackfill
    /\ req[1].resp = RespOk(<<Obj("1", UNDEF, UNDEF, UNDEF), Catalog("2")>>)

\* C29: Add never shrinks the stored wishlist.  Whenever Add writes the
\* metafield, the written list begins with every entry of the wishlist that
\* was stored when Add loaded it (normalized, in order), for every load
\* answer that is no transport failure, an answer without customer data or
\* without the wishlist metafield included.
C29_AddNeverShrinks ==
    ( req[1].op = "add" /\ req[1].writes = 1 )
    => /\ Len(req[1].wishlist) >= Len(Before)
       /\ SubSeq(req[1].wishlist, 1, Len(Before)) = Before

(***************************************************************************)
(* Add, then Remove with the same body, with no other request in between.  *)
(***************************************************************************)
NextAddRemove ==
    \/ \E body \in SelectorBodies : AddStart(1, body)
    \/ AddLoad(1)
    \/ AddLookup(1)
    \/ AddWrite(1)
    \/ req[1].pc = "done" /\ req[1].op = "add" /\ RemoveStart(2, req[1].body)
    \/ RemoveLoad(2)
    \/ RemoveWrite(2)

SpecAddRemove == Init /\ [][NextAddRemove]_vars

\* The same entries, each as often, in whatever order.
Occurrences(list, e) == Cardinality({k \in 1..Len(list) : list[k] = e})

ContentEqual(a, b) ==
    /\ Len(a) = Len(b)
    /\ \A k \in 1..Len(a) : Occurrences(a, a[k]) = Occurrences(b, a[k])

\* A successful Add in slot 1 was followed by a successful Remove with the
\* same body in slot 2.
AddThenRemove ==
    /\ req[1].op = "add" /\ req[1].pc = "done" /\ req[1].resp.success
    /\ req[2].op = "remove" /\ req[2].pc = "done" /\ req[2].resp.success
    /\ req[2].body = req[1].body

\* C2 as claimed: a successful Add followed by a successful Remove with the
\* same selector leaves the stored wishlist content-equal to the normalized
\* wishlist stored before the Add.
C2_AddRemoveRestores ==
    AddThenRemove => ContentEqual(Now, Before)

\* Remove's filter drops entry e for this body: decided by the handle when a
\* handle target is given and e has a handle, else by the id.
FilterDrops(e, body) ==
    IF Truthy(handleToRemove(body)) /\ HasHandle(e)
    THEN e.handle = handleToRemove(body)
    ELSE /\ Truthy(idToRemove(body)) /\ HasId(e)
         /\ StringOf(e.id) = idToRemove(body)

\* C2 as amended: when both loads returned the stored metafield, no entry of
\* the wishlist stored before the Add is one Remove's filter drops for the
\* selector, and the entry Add resolved is one it drops, then a successful
\* Add followed by a successful Remove with the same selector leaves the
\* stored wishlist content-equal to the normalized pre-Add wishlist.
C2_AddRemoveRestoresAbsent ==
    ( /\ AddThenRemove
      /\ req[1].load = "ok" /\ req[2].load = "ok"
      /\ \A k \in 1..Len(Before) : ~FilterDrops(Before[k], req[1].body)
      /\ FilterDrops(req[1].newProduct, req[1].body) )
    => /\ ContentEqual(Now, Before)
       /\ req[2].resp.wishlist = Before

\* Add appended a product to a non-empty wishlist and Remove took it out.
C2_Witness ==
    /\ AddThenRemove
    /\ req[1].load = "ok" /\ req[2].load = "ok"
    /\ Len(Before) > 0
    /\ \A k \in 1..Len(Before) : ~FilterDrops(Before[k], req[1].body)
    /\ FilterDrops(req[1].newProduct, req[1].body)
    /\ Len(req[1].resp.wishlist) = Len(Before) + 1
    /\ Now = Before

(***************************************************************************)
(* Two requests for the same customer at once: each an Add or a Remove,    *)
(* their steps interleaved in any order.                                   *)
(***************************************************************************)
ConcBodies ==
    { Body("5", "1", UNDEF, NoVal, UNDEF),
      Body("5", "#2", UNDEF, NoVal, UNDEF),
      Body("5", UNDEF, "a", NoVal, UNDEF),
      Body("5", UNDEF, "b", NoVal, UNDEF) }

InitConc ==
    /\ stored \in StoredDocs(MaxConcLen)
    /\ stored0 = stored
    /\ req = [r \in Slots |-> ReqIdle]
    /\ IdleRest

NextConc ==
    \E r \in Slots :
        \/ \E body \in ConcBodies : AddStart(r, body)
        \/ \E body \in ConcBodies : RemoveStart(r, body)
        \/ AddLoad(r)
        \/ AddLookup(r)
        \/ AddWrite(r)
        \/ RemoveLoad(r)
        \/ RemoveWrite(r)

SpecConc == InitConc /\ [][NextConc]_vars

\* Both requests loaded before either wrote, and both writes were accepted
\* upstream; r wrote last.
BothLoadedFirst(r) ==
    /\ \A q \in Slots : req[q].pc = "done" /\ req[q].load = "ok"
                        /\ req[q].write = "ok" /\ req[q].seen = 0
    /\ req[r].order = 2

\* What a request makes of the wishlist stored at the start, alone.
OwnResult(r) ==
    IF req[r].op = "add"
    THEN addPush(Before, req[r].newProduct)
    ELSE removeFilter(Before, handleToRemove(req[r].body), idToRemove(req[r].body))

\* C3: when two Add/Remove requests both load before either writes, nothing
\* rejects the second write: both answer success, and the metafield ends up
\* holding what the second writer made of the value stored at the start,
\* without the first writer's change.
C3_LastWriteWins ==
    \A r \in Slots :
        BothLoadedFirst(r) =>
            /\ \A q \in Slots : req[q].resp.success
            /\ req[r].loaded = stored0
            /\ stored = JSONstringify(OwnResult(r))

\* A lost update: the first writer added a product the wishlist did not
\* hold, the second writer added another, both answered success, and the
\* stored wishlist does not hold the first writer's product.
C3_Witness ==
    \E r, q \in Slots :
        /\ BothLoadedFirst(r) /\ req[q].order = 1
        /\ req[q].op = "add" /\ req[r].op = "add"
        /\ req[q].resp.success /\ req[r].resp.success
        /\ Len(req[q].resp.wishlist) = Len(Before) + 1
        /\ \A k \in 1..Len(Now) : ~SameProduct(Now[k], req[q].newProduct)

\* Two Adds one after the other: q's write was applied before r loaded the
\* wishlist, both loads returned the stored metafield, both answered
\* success, and their products differ by the identity rule.
AddAfterAdd(q, r) ==
    /\ q # r
    /\ \A x \in {q, r} : /\ req[x].op = "add" /\ req[x].pc = "done"
                          /\ req[x].load = "ok" /\ req[x].resp.success
    /\ req[q].order = 1 /\ req[r].seen = 1
    /\ ~SameProduct(req[q].newProduct, req[r].newProduct)

Holds(list, product) ==
    \E k \in 1..Len(list) : list[k] = product \/ SameProduct(list[k], product)

\* C27: without overlap no update is lost.  If two Add requests with
\* different products run one after the other, the second loading the
\* wishlist only after the first's write succeeded, and both answer success,
\* the stored wishlist afterwards holds both products.
C27_SequentialAddsKept ==
    \A q, r \in Slots :
        AddAfterAdd(q, r)
        => /\ Holds(Now, req[q].newProduct)
           /\ Holds(Now, req[r].newProduct)
           /\ Holds(req[r].resp.wishlist, req[q].newProduct)

\* Two Adds one after the other have each appended their product: the
\* stored wishlist is two entries longer than at the start.
C27_Witness ==
    \E q, r \in Slots :
        /\ AddAfterAdd(q, r)
        /\ Len(Now) = Len(Before) + 2
        /\ Now[Len(Now) - 1] = req[q].newProduct
        /\ Now[Len(Now)] = req[r].newProduct

(***************************************************************************)
(* A Get and, at the same time, an Add or a Remove for the same customer.  *)
(***************************************************************************)
NextGetConc ==
    \/ \E body \in GetBodies : GetStart(1, body)
    \/ GetLoad(1)
    \/ GetEnrich(1)
    \/ GetWrite(1)
    \/ \E body \in ConcBodies : AddStart(2, body)
    \/ \E body \in ConcBodies : RemoveStart(2, body)
    \/ AddLoad(2)
    \/ AddLookup(2)
    \/ AddWrite(2)
    \/ RemoveLoad(2)
    \/ RemoveWrite(2)

SpecGetConc == InitConc /\ [][NextGetConc]_vars

\* The ids of the entries of a list.
IdsOf(list) == { StringOf(list[k].id) : k \in {j \in 1..Len(list) : HasId(list[j])} }

\* C28: Get never changes which products are stored.  Any write of Get's
\* handle backfill stores a list that has, for every entry stored in the
\* metafield at the moment of that write, an entry with the same id, also
\* when an Add or Remove completes between Get's load and Get's write.
C28_GetKeepsStoredIds ==
    ( req[1].op = "get" /\ req[1].write # "none" )
    => IdsOf(normalizeWishlistEntries(parseWishlist(req[1].replaced)))
          \subseteq IdsOf(req[1].wishlist)

(***************************************************************************)
(* POST /upload-profile-image: decode, then Stage, Upload, Register and    *)
(* Attach, each an upstream call the handler awaits.                       *)
(***************************************************************************)
UploadBody(customer_id, image_url) ==
    [customer_id |-> customer_id, image_url |-> image_url]

UploadBodies ==
    { UploadBody(c, i) : c \in {UNDEF, "5", "6"},
                         i \in {UNDEF, "data:image/png;base64,QUJD", "QUJD"} }

\* Lines 492-493: strip a data-URI prefix, decode the base64 text.
stripPrefix(image_url) ==
    IF image_url = "data:image/png;base64,QUJD" THEN "QUJD" ELSE image_url

base64Decode(text) == IF text = "QUJD" THEN "ABC" ELSE ""

UpResp(status, success, fileId) ==
    [status |-> status, success |-> success, fileId |-> fileId]

UpIdle(profile_image) ==
    [pc |-> "idle", body |-> UploadBody(UNDEF, UNDEF), buffer |-> "",
     calls |-> <<>>,             \* the upstream calls issued, in order
     results |-> <<>>,           \* how each returned call ended
     resourceUrl |-> UNDEF, fileId |-> UNDEF,
     uploaded |-> "",            \* the bytes the staging target received
     profile_image |-> profile_image,   \* the customer's metafield
     profile_image0 |-> profile_image,  \* history: its value at the start
     sent |-> 0,                 \* responses sent
     resp |-> UpResp(0, FALSE, UNDEF)]

\* What the stagedUploadsCreate call may answer: a transport failure, or user
\* errors and a first target that is missing, has no url, has no parameters,
\* or is complete.
StageResults ==
    { [fail |-> TRUE, userErrors |-> FALSE, target |-> "none"] }
    \cup { [fail |-> FALSE, userErrors |-> e, target |-> t] :
             e \in BOOLEAN, t \in {"none", "nourl", "noparams", "ok"} }

\* Lines 546-565, 574: the response's status after Stage, 0 to go on.
stageStatusIgnoringErrors(result) ==
    IF result.fail THEN 500
    ELSE IF result.target \in {"none", "nourl"} THEN 400
    ELSE IF result.target = "noparams" THEN 500
    ELSE 0

stageStatus(result) ==
    IF result.fail THEN 500
    ELSE IF result.userErrors THEN 400
    ELSE IF result.target \in {"none", "nourl"} THEN 400
    ELSE IF result.target = "noparams" THEN 500
    ELSE 0

StageSucceeded(result) ==
    ~result.fail /\ ~result.userErrors /\ result.target = "ok"

\* What the fileCreate call may answer.
RegisterResults ==
    { [fail |-> TRUE, userErrors |-> FALSE, fileId |-> UNDEF] }
    \cup { [fail |-> FALSE, userErrors |-> e, fileId |-> f] :
             e \in BOOLEAN, f \in {UNDEF, "gid://shopify/MediaImage/1"} }

\* Lines 640-654.
\* Without the test for a missing file id.
registerStatusAnyFileId(result) ==
    IF result.fail THEN 500
    ELSE IF result.userErrors THEN 400
    ELSE 0

registerStatus(result) ==
    IF result.fail THEN 500
    ELSE IF result.userErrors THEN 400
    ELSE IF ~Truthy(result.fileId) THEN 400
    ELSE 0

RegisterSucceeded(result) ==
    ~result.fail /\ ~result.userErrors /\ Truthy(result.fileId)

UpCall(name, arg) == [name |-> name, arg |-> arg]

\* Ending with an error after deleting what was uploaded.
UpEndWithCleanup(rec, status) ==
    up' = [rec EXCEPT !.pc = "done", !.resp = UpResp(status, FALSE, UNDEF),
                      !.sent = rec.sent + 1,
                      !.uploaded = "",
                      !.calls = IF rec.uploaded # ""
                                THEN Append(rec.calls, UpCall("Delete", rec.resourceUrl))
                                ELSE rec.calls]

UpEnd(rec, status) ==
    up' = [rec EXCEPT !.pc = "done", !.resp = UpResp(status, FALSE, UNDEF),
                      !.sent = rec.sent + 1]

UploadStart(body) ==
    /\ up.pc = "idle"
    /\ LET rec == [up EXCEPT !.body = body] IN
       IF ~Truthy(body.customer_id) \/ ~Truthy(body.image_url)
       THEN UpEnd(rec, 400)
       ELSE up' = [rec EXCEPT
                     !.pc = "stage",
                     !.buffer = base64Decode(stripPrefix(body.image_url)),
                     !.calls = <<UpCall("Stage", body.customer_id)>>]
    /\ UNCHANGED <<stored, stored0, req, normIn, normOut, normCount>>

UploadStage ==
    /\ up.pc = "stage"
    /\ \E result \in StageResults :
         LET rec == [up EXCEPT !.results = Append(up.results, result)] IN
         IF stageStatus(result) # 0
         THEN UpEnd(rec, stageStatus(result))
         ELSE up' = [rec EXCEPT
                       !.pc = "upload",
                       !.resourceUrl = "https://staged/resource",
                       !.calls = Append(up.calls, UpCall("Upload", up.buffer))]
    /\ UNCHANGED <<stored, stored0, req, normIn, normOut, normCount>>

\* Lines 586-592: the multipart POST; a failure goes to the outer catch.
UploadUpload ==
    /\ up.pc = "upload"
    /\ \E ok \in BOOLEAN :
         LET rec == [up EXCEPT !.results = Append(up.results, ok)] IN
         IF ~ok
         THEN UpEnd(rec, 500)
         ELSE up' = [rec EXCEPT
                       !.pc = "register",
                       !.uploaded = up.buffer,
                       !.calls = Append(up.calls, UpCall("Register", up.resourceUrl))]
    /\ UNCHANGED <<stored, stored0, req, normIn, normOut, normCount>>

UploadRegister ==
    /\ up.pc = "register"
    /\ \E result \in RegisterResults :
         LET rec == [up EXCEPT !.results = Append(up.results, result)] IN
         IF registerStatus(result) # 0
         THEN UpEnd(rec, registerStatus(result))
         ELSE up' = [rec EXCEPT
                       !.pc = "attach",
                       !.fileId = result.fileId,
                       !.calls = Append(up.calls, UpCall("Attach", result.fileId))]
    /\ UNCHANGED <<stored, stored0, req, normIn, normOut, normCount>>

\* Lines 684-722: the customerUpdate setting custom.profile_image.
UploadAttach ==
    /\ up.pc = "attach"
    /\ \E outcome \in {"ok", "userErrors", "fail"} :
         LET rec == [up EXCEPT !.results = Append(up.results, outcome)] IN
         CASE outcome = "ok" ->
                up' = [rec EXCEPT !.pc = "done",
                                  !.sent = rec.sent + 1,
                                  !.profile_image = up.fileId,
                                  !.resp = UpResp(200, TRUE, up.fileId)]
           [] outcome = "userErrors" -> UpEnd(rec, 400)
           [] OTHER -> UpEnd(rec, 500)
    /\ UNCHANGED <<stored, stored0, req, normIn, normOut, normCount>>

InitUpload ==
    /\ up \in { UpIdle(p) : p \in {UNDEF, "gid://shopify/MediaImage/0"} }
    /\ stored = Doc("absent", <<>>)
    /\ stored0 = stored
    /\ req = [r \in Slots |-> ReqIdle]
    /\ normIn = <<>> /\ normOut = <<>> /\ normCount = 0

NextUpload ==
    \/ \E body \in UploadBodies : UploadStart(body)
    \/ UploadStage
    \/ UploadUpload
    \/ UploadRegister
    \/ UploadAttach

SpecUpload == InitUpload /\ [][NextUpload]_vars

Pipeline == <<"Stage", "Upload", "Register", "Attach">>

\* The upstream call in position k returned and succeeded.
StepSucceeded(k) ==
    /\ Len(up.results) >= k
    /\ CASE k = 1 -> StageSucceeded(up.results[1])
         [] k = 2 -> up.results[2] = TRUE
         [] k = 3 -> RegisterSucceeded(up.results[3])
         [] OTHER -> up.results[k] = "ok"

\* C4: the upstream calls of an upload are Stage, Upload, Register, Attach in
\* this order, each at most once, and a call is issued only if every earlier
\* one succeeded; after a Stage that returned a user error or no usable
\* target, Stage is the only call.
C4_PipelineSequential ==
    /\ Len(up.calls) <= Len(Pipeline)
    /\ \A k \in 1..Len(up.calls) :
         /\ up.calls[k].name = Pipeline[k]
         /\ \A j \in 1..(k - 1) : StepSucceeded(j)
    /\ (Len(up.results) >= 1 /\ ~StageSucceeded(up.results[1]))
         => Len(up.calls) = 1

\* Stage returned user errors (together with a complete target) and the
\* request has ended with Stage as its only upstream call.
C4_Witness ==
    /\ up.pc = "done"
    /\ Len(up.results) = 1
    /\ up.results[1] = [fail |-> FALSE, userErrors |-> TRUE, target |-> "ok"]
    /\ up.calls = <<UpCall("Stage", "5")>>
    /\ up.resp.status = 400

\* A required field the request came without.
Missing(v) == v \in {UNDEF, NULLV}

\* The upload has ended with this status, success:false and no fileId.
UploadFailedWith(status) ==
    /\ up.pc = "done"
    /\ up.resp = UpResp(status, FALSE, UNDEF)

\* C17: the upload pipeline's error classes.  Stage user errors or a missing
\* target or url end the request with HTTP 400; a failed binary Upload POST
\* with HTTP 500; Register user errors or a missing file id with HTTP 400;
\* Attach user errors with HTTP 400; each time with success:false and no
\* fileId.  success:true with the fileId is sent only after Attach returned
\* without user errors.
C17_UploadErrorClasses ==
    /\ ( /\ Len(up.results) >= 1 /\ ~up.results[1].fail
         /\ (up.results[1].userErrors \/ up.results[1].target \in {"none", "nourl"}) )
         => UploadFailedWith(400)
    /\ (Len(up.results) >= 2 /\ up.results[2] = FALSE)
         => UploadFailedWith(500)
    /\ ( /\ Len(up.results) >= 3 /\ ~up.results[3].fail
         /\ (up.results[3].userErrors \/ Missing(up.results[3].fileId)) )
         => UploadFailedWith(400)
    /\ (Len(up.results) >= 4 /\ up.results[4] = "userErrors")
         => UploadFailedWith(400)
    /\ up.resp.success
         => /\ Len(up.results) = 4 /\ up.results[4] = "ok"
            /\ up.resp.status = 200
            /\ up.resp.fileId = up.results[3].fileId
            /\ ~Missing(up.resp.fileId)
    /\ (up.pc = "done" /\ ~up.resp.success) => up.resp.fileId = UNDEF

\* The binary Upload POST failed after a Stage that succeeded, and the
\* request has ended with HTTP 500.
C17_Witness ==
    /\ Len(up.results) = 2 /\ up.results[2] = FALSE
    /\ StageSucceeded(up.results[1])
    /\ UploadFailedWith(500)

\* Register or Attach has failed after an Upload that succeeded.
FailedAfterUpload ==
    /\ Len(up.results) >= 3 /\ up.results[2] = TRUE
    /\ \/ ~RegisterSucceeded(up.results[3])
       \/ Len(up.results) >= 4 /\ up.results[4] # "ok"

\* C23: the upload pipeline has no rollback.  When Register or Attach fails
\* after a successful Upload the request ends with an error, the uploaded
\* file stays uploaded, the customer's profile_image metafield is as it was
\* before the request, and no upstream call beyond the pipeline's own (no
\* delete, no cleanup) is issued.
C23_UploadNoRollback ==
    FailedAfterUpload
    => /\ up.pc = "done"
       /\ ~up.resp.success /\ up.resp.status \in {400, 500}
       /\ up.uploaded = up.buffer /\ up.uploaded # ""
       /\ up.profile_image = up.profile_image0
       /\ Len(up.calls) = Len(up.results)
       /\ \A k \in 1..Len(up.calls) : up.calls[k].name = Pipeline[k]

\* Attach returned user errors for a customer who had a profile image: the
\* request has ended with HTTP 400, the new file is uploaded and registered,
\* the metafield still names the old file.
C23_Witness ==
    /\ FailedAfterUpload /\ up.pc = "done"
    /\ Len(up.results) = 4 /\ up.results[4] = "userErrors"
    /\ up.uploaded = "ABC"
    /\ up.profile_image = "gid://shopify/MediaImage/0"
    /\ up.resp.status = 400

(***************************************************************************)
(* Any one request: a Get, Add, Remove or AttachHandles, or an upload.     *)
(***************************************************************************)
InitAny ==
    /\ stored \in StoredDocs(MaxConcLen)
    /\ stored0 = stored
    /\ req = [r \in Slots |-> ReqIdle]
    /\ up \in { UpIdle(p) : p \in {UNDEF, "gid://shopify/MediaImage/0"} }
    /\ normIn = <<>> /\ normOut = <<>> /\ normCount = 0

NextAny ==
    \/ up.pc = "idle" /\ Next
    \/ req[1].pc = "idle" /\ NextUpload

SpecAny == InitAny /\ [][NextAny]_vars

\* The wishlist request in slot r came without customer_id, or (Add, Remove)
\* without any of product_id, product_handle and product, or (AttachHandles)
\* without mappings.
LacksRequired(r) ==
    \/ Missing(req[r].body.customer_id)
    \/ /\ req[r].op \in {"add", "remove"}
       /\ Missing(req[r].body.product_id)
       /\ Missing(req[r].body.product_handle)
       /\ req[r].body.product.kind = "undefined"
    \/ req[r].op = "attach" /\ req[r].mappings.kind = "undefined"

UploadLacksRequired ==
    Missing(up.body.customer_id) \/ Missing(up.body.image_url)

\* C14: validation comes before any upstream call.  A Get without
\* customer_id, an Add or Remove without customer_id or without any selector,
\* an AttachHandles without customer_id or mappings, and an upload without
\* customer_id or image payload each answer HTTP 400 with success:false, and
\* no load, lookup, write or stage request is issued.
C14_ValidationFirst ==
    /\ (req[1].op # "none" /\ LacksRequired(1))
         => /\ req[1].pc = "done"
            /\ req[1].resp.status = 400 /\ ~req[1].resp.success
            /\ req[1].load = "none" /\ req[1].lookups = 0 /\ req[1].writes = 0
            /\ stored = stored0
    /\ (up.pc # "idle" /\ UploadLacksRequired)
         => /\ up.pc = "done"
            /\ up.resp.status = 400 /\ ~up.resp.success
            /\ up.calls = <<>>
            /\ up.profile_image \in {UNDEF, "gid://shopify/MediaImage/0"}

\* An AttachHandles that came with a customer_id and without mappings has
\* been answered.
C14_Witness ==
    /\ req[1].op = "attach" /\ req[1].pc = "done"
    /\ req[1].body.customer_id = "5"
    /\ req[1].mappings = NoMappings
    /\ req[1].resp = Resp400

(***************************************************************************)
(* AttachHandles on its own, for stored wishlists that hold entries as an  *)
(* earlier AttachHandles or Get left them: whole looked-up products.       *)
(***************************************************************************)
AttachStoredElems ==
    { Catalog("2"),
      Obj(UNDEF, "b", UNDEF, UNDEF),
      NumEl("#2"),
      Obj("1", "a", UNDEF, UNDEF),
      NullEl }

InitAttach ==
    /\ stored \in NonArrayDocs
                  \cup { Doc("array", l) : l \in SeqsUpTo(AttachStoredElems, MaxLen) }
    /\ stored0 = stored
    /\ req = [r \in Slots |-> ReqIdle]
    /\ IdleRest

NextAttach ==
    \/ \E c \in {UNDEF, "5"}, mappings \in MappingsArgs : AttachStart(1, c, mappings)
    \/ AttachLoad(1)
    \/ AttachMap(1)
    \/ AttachWrite(1)

SpecAttach == InitAttach /\ [][NextAttach]_vars

\* AttachHandles has gone through all its mappings without an exception.
AttachLooped(r) ==
    /\ req[r].op = "attach" /\ req[r].pc \in {"write", "done"}
    /\ req[r].load \in {"ok", "nodata"}
    /\ ~req[r].threw

\* C21: AttachHandles writes the metafield only if some mapping changed the
\* wishlist: when, after all mappings, the in-memory list is content-equal
\* to the normalized list that was loaded, no write is issued; and when a
\* write is issued and fails, the response is still success:true with the
\* in-memory merged list.
C21_AttachWritesOnlyChanges ==
    AttachLooped(1)
    => /\ ContentEqual(req[1].wishlist, LoadedBy(1)) => req[1].writes = 0
       /\ (req[1].pc = "done" /\ req[1].write \in {"userErrors", "fail"})
            => req[1].resp = RespOk(req[1].wishlist)

\* C22: AttachHandles keeps the wishlist unique by the identity rule: from
\* a loaded wishlist with no two entries the same product, for every list of
\* mappings and whatever the product lookups return, the resulting list has
\* no two entries with equal handles and no two with string-equal ids.
C22_AttachKeepsUnique ==
    ( AttachLooped(1) /\ UniqueByIdentity(LoadedBy(1)) )
    => UniqueByIdentity(req[1].wishlist)

(***************************************************************************)
(* Any one request, every upstream call of which eventually returns or     *)
(* fails: each step that takes a call's answer is taken once it is due.    *)
(***************************************************************************)
FairAny ==
    /\ SpecAny
    /\ WF_vars(GetLoad(1)) /\ WF_vars(GetEnrich(1)) /\ WF_vars(GetWrite(1))
    /\ WF_vars(AddLoad(1)) /\ WF_vars(AddLookup(1)) /\ WF_vars(AddWrite(1))
    /\ WF_vars(RemoveLoad(1)) /\ WF_vars(RemoveWrite(1))
    /\ WF_vars(AttachLoad(1)) /\ WF_vars(AttachMap(1)) /\ WF_vars(AttachWrite(1))
    /\ WF_vars(UploadStage) /\ WF_vars(UploadUpload)
    /\ WF_vars(UploadRegister) /\ WF_vars(UploadAttach)

\* A request has come in.
Received == req[1].op # "none" \/ up.pc # "idle"

\* The request that came in has its one response.
AnsweredOnce ==
    \/ req[1].pc = "done" /\ req[1].sent = 1 /\ req[1].resp.status # 0
    \/ up.pc = "done" /\ up.sent = 1 /\ up.resp.status # 0

\* C30: every request to /upload-profile-image, /wishlist, /wishlist/add,
\* /wishlist/remove and /wishlist/attach-handles eventually sends exactly
\* one HTTP response on every path, provided each upstream call eventually
\* returns or fails: never more than one response, and once a request has
\* come in its response follows.
C30_EveryRequestAnswered ==
    /\ [](req[1].sent <= 1 /\ up.sent <= 1)
    /\ Received ~> AnsweredOnce

\* An AttachHandles whose best-effort write failed has sent its one
\* response, a success.
C30_Witness ==
    /\ req[1].op = "attach" /\ req[1].pc = "done"
    /\ req[1].write = "fail"
    /\ req[1].sent = 1 /\ req[1].resp.success

(***************************************************************************)
(* normalizeWishlistEntries on its own.                                    *)
(***************************************************************************)
InitNormalize ==
    /\ normIn \in SeqsUpTo(StoredElems, MaxLen)
    /\ normOut = normIn
    /\ normCount = 0
    /\ stored = Doc("absent", <<>>)
    /\ stored0 = stored
    /\ req = <<>>
    /\ up = [pc |-> "off"]

ApplyNormalize ==
    /\ normCount < 2
    /\ normIn' = normOut
    /\ normOut' = normalizeWishlistEntries(normOut)
    /\ normCount' = normCount + 1
    /\ UNCHANGED <<stored, stored0, req, up>>

NextNormalize == ApplyNormalize

SpecNormalize == InitNormalize /\ [][NextNormalize]_vars

\* C8: normalizing a list that normalizeWishlistEntries returned gives that
\* list again: normalize(normalize(L)) = normalize(L).
C8_NormalizeIdempotent ==
    normCount = 2 => normOut = normIn

\* A legacy list (a bare string, a bare number) has been normalized twice.
C8_Witness ==
    /\ normCount = 2
    /\ \E i \in 1..Len(normOut) : normOut[i] = Obj("2", UNDEF, UNDEF, UNDEF)
    /\ \E i \in 1..Len(normOut) : normOut[i] = Obj("1", UNDEF, UNDEF, UNDEF)

====
